---------------------------- MODULE Spec2Model ----------------------------
(***************************************************************************)
(* GradientVolume (src/volume/gradient_volume.cpp): a gradient field built *)
(* once from a scalar Volume by central differences, its min/max magnitude *)
(* statistics, and point sampling (nearest neighbour, "linear", cubic      *)
(* aliased to linear) selected by the mutable interpolationMode.           *)
(*                                                                         *)
(* float arithmetic.  A float is modelled as a value of a binary           *)
(* fixed-point grid with FracBits fractional bits, or +Inf, -Inf or NaN.   *)
(* Every operation returns the exact result rounded to the grid (as an     *)
(* IEEE-754 operation returns the exact result rounded to the nearest      *)
(* float), and Inf/NaN follow the IEEE-754 rules (1/0 = +Inf, Inf*0 = NaN, *)
(* Inf-Inf = NaN, comparisons with NaN are false).  Overflow of finite     *)
(* values to Inf does not occur at the magnitudes of the model.            *)
(***************************************************************************)
EXTENDS Integers, Sequences, FiniteSets

\* Number of fractional bits of the float grid (>= 2, so that halves are exact).
FracBits == 3
\* Largest extent of the source volume on an axis.
MaxDim == 5

One == 2 ^ FracBits
Half == One \div 2

----------------------------------------------------------------------------
(* float *)

Fin(n) == [cls |-> "fin", v |-> n]
NaN == [cls |-> "nan", v |-> 0]
Inf(s) == [cls |-> "inf", v |-> s]

Sign(n) == IF n < 0 THEN -1 ELSE IF n > 0 THEN 1 ELSE 0
Abs(n) == IF n < 0 THEN -n ELSE n

\* n / d rounded to the nearest integer (d > 0).
RoundDiv(n, d) == (2 * n + d) \div (2 * d)

RECURSIVE SqrtSearch(_, _, _)
SqrtSearch(n, lo, hi) ==
    IF lo >= hi THEN lo
    ELSE LET mid == (lo + hi + 1) \div 2
         IN  IF mid * mid <= n THEN SqrtSearch(n, mid, hi)
                               ELSE SqrtSearch(n, lo, mid - 1)

\* sqrt(n) rounded to the nearest integer (n >= 0).
RoundSqrt(n) ==
    LET r == SqrtSearch(n, 0, n)
    IN  IF n - r * r > r THEN r + 1 ELSE r

FNeg(a) ==
    IF a.cls = "fin" THEN Fin(-a.v)
    ELSE IF a.cls = "inf" THEN Inf(-a.v)
    ELSE NaN

FAdd(a, b) ==
    IF a.cls = "nan" \/ b.cls = "nan" THEN NaN
    ELSE IF a.cls = "inf" /\ b.cls = "inf" THEN (IF a.v = b.v THEN a ELSE NaN)
    ELSE IF a.cls = "inf" THEN a
    ELSE IF b.cls = "inf" THEN b
    ELSE Fin(a.v + b.v)

FSub(a, b) == FAdd(a, FNeg(b))

FMul(a, b) ==
    IF a.cls = "nan" \/ b.cls = "nan" THEN NaN
    ELSE IF a.cls = "inf" \/ b.cls = "inf"
         THEN (IF Sign(a.v) * Sign(b.v) = 0 THEN NaN ELSE Inf(Sign(a.v) * Sign(b.v)))
    ELSE Fin(RoundDiv(a.v * b.v, One))

FDiv(a, b) ==
    IF a.cls = "nan" \/ b.cls = "nan" THEN NaN
    ELSE IF a.cls = "inf" /\ b.cls = "inf" THEN NaN
    ELSE IF a.cls = "inf" THEN Inf(IF b.v < 0 THEN -a.v ELSE a.v)
    ELSE IF b.cls = "inf" THEN Fin(0)
    ELSE IF b.v = 0 THEN (IF a.v = 0 THEN NaN ELSE Inf(Sign(a.v)))
    ELSE Fin(Sign(a.v) * Sign(b.v) * RoundDiv(Abs(a.v) * One, Abs(b.v)))

FSqrt(a) ==
    IF a.cls = "nan" THEN NaN
    ELSE IF a.cls = "inf" THEN (IF a.v > 0 THEN a ELSE NaN)
    ELSE IF a.v < 0 THEN NaN
    ELSE Fin(RoundSqrt(a.v * One))

FLess(a, b) ==
    IF a.cls = "nan" \/ b.cls = "nan" THEN FALSE
    ELSE IF a.cls = "inf" THEN a.v < 0 /\ ~(b.cls = "inf" /\ b.v < 0)
    ELSE IF b.cls = "inf" THEN b.v > 0
    ELSE a.v < b.v

FGreaterEq(a, b) ==
    IF a.cls = "nan" \/ b.cls = "nan" THEN FALSE
    ELSE ~FLess(a, b)

\* int -> float
IntToFloat(i) == Fin(i * One)
\* floor(f), ceil(f) followed by static_cast<int>, for a finite f
FloorInt(a) == a.v \div One
CeilInt(a) == -((-a.v) \div One)
\* static_cast<int>(f): truncation toward zero, for a finite f
TruncInt(a) == IF a.v >= 0 THEN a.v \div One ELSE -((-a.v) \div One)

(* glm::vec3 *)

Vec3(x, y, z) == <<x, y, z>>
VAdd(a, b) == <<FAdd(a[1], b[1]), FAdd(a[2], b[2]), FAdd(a[3], b[3])>>
VSub(a, b) == <<FSub(a[1], b[1]), FSub(a[2], b[2]), FSub(a[3], b[3])>>
VScale(s, a) == <<FMul(s, a[1]), FMul(s, a[2]), FMul(s, a[3])>>
Dot(a, b) == FAdd(FAdd(FMul(a[1], b[1]), FMul(a[2], b[2])), FMul(a[3], b[3]))
Length(v) == FSqrt(Dot(v, v))
Distance(p0, p1) == Length(VSub(p1, p0))

----------------------------------------------------------------------------
(* GradientVoxel *)

GradientVoxel(d, m) == [dir |-> d, magnitude |-> m]
\* a value-initialised GradientVoxel: { glm::vec3(0.0f), 0.0f }
ZeroVoxel == GradientVoxel(Vec3(Fin(0), Fin(0), Fin(0)), Fin(0))

----------------------------------------------------------------------------
(* The source Volume: dims() and getVoxel(x, y, z). *)

\* Extents of the volumes: the cubes, the volumes with two cells on one axis,
\* and the volumes with a longest axis (the three axes in each order).
Dims ==
    {<<n, n, n>> : n \in 1..MaxDim}
        \cup {<<2, MaxDim, MaxDim>>, <<MaxDim, 2, MaxDim>>, <<MaxDim, MaxDim, 2>>}
        \cup {<<MaxDim, 3, 3>>, <<3, MaxDim, 3>>, <<3, 3, MaxDim>>}

Fields == {"constant", "rampX", "affine", "scattered"}

\* The scalar stored at cell (x, y, z) of a volume of the given field.
FieldValue(field, x, y, z) ==
    CASE field = "constant"  -> 10
      [] field = "rampX"     -> x
      [] field = "affine"    -> x + 2 * y + 2 * z
      [] field = "scattered" -> (x * x + 2 * y + 3 * x * z + y * z) % 5

Volumes == {[dims |-> d, field |-> f] : d \in Dims, f \in Fields}

getVoxel(volume, x, y, z) == IntToFloat(FieldValue(volume.field, x, y, z))


----------------------------------------------------------------------------
(* Construction *)

\* GradientIndex with the extents of x and y exchanged.
GradientIndexSwapped(dim, x, y, z) == x + dim[2] * (y + dim[1] * z)

\* The linear index of cell (x, y, z) written by computeGradientVolume.
GradientIndex(dim, x, y, z) == x + dim[1] * (y + dim[2] * z)

\* The gradient at an interior cell: central differences and their length.
CentralDifference(volume, x, y, z) ==
    LET two == IntToFloat(2)
        gx == FDiv(FSub(getVoxel(volume, x + 1, y, z), getVoxel(volume, x - 1, y, z)), two)
        gy == FDiv(FSub(getVoxel(volume, x, y + 1, z), getVoxel(volume, x, y - 1, z)), two)
        gz == FDiv(FSub(getVoxel(volume, x, y, z + 1), getVoxel(volume, x, y, z - 1)), two)
        v  == Vec3(gx, gy, gz)
    IN  GradientVoxel(v, Length(v))

\* The number of values an index of the loop "for (i = 1; i < d - 1; i++)" takes.
InteriorCount(d) == IF d > 2 THEN d - 2 ELSE 0

\* The cell (x, y, z) of the k-th iteration (k = 0, 1, ...) of the three nested
\* loops, z outermost and x innermost.
LoopCell(dim, k) ==
    LET nx == InteriorCount(dim[1])
        ny == InteriorCount(dim[2])
    IN  <<1 + (k % nx), 1 + ((k \div nx) % ny), 1 + (k \div (nx * ny))>>

\* The number of iterations of the loop body.
LoopLength(dim) ==
    InteriorCount(dim[1]) * InteriorCount(dim[2]) * InteriorCount(dim[3])

\* std::vector<GradientVoxel> out(dim.x * dim.y * dim.z), then the loops: an
\* element holds what the last iteration that wrote it stored, and the
\* value-initialised voxel when none did.  Element i of the C++ vector is element
\* i + 1 of the sequence.
computeGradientVolume(volume) ==
    LET dim == volume.dims
        Writers(i) ==
            {k \in 0..(LoopLength(dim) - 1) :
                LET c == LoopCell(dim, k) IN GradientIndex(dim, c[1], c[2], c[3]) = i}
        Last(S) == CHOOSE k \in S : \A j \in S : j <= k
    IN  [i1 \in 1..(dim[1] * dim[2] * dim[3]) |->
            IF Writers(i1 - 1) = {} THEN ZeroVoxel
            ELSE LET c == LoopCell(dim, Last(Writers(i1 - 1)))
                 IN  CentralDifference(volume, c[1], c[2], c[3])]

\* std::max_element over data[lo..hi] with the comparator lhs.magnitude <
\* rhs.magnitude: the first element that no other element exceeds.  The scan is
\* split in halves; an element of the right half wins only when it is greater.
RECURSIVE MaxElement(_, _, _)
MaxElement(data, lo, hi) ==
    IF lo = hi THEN lo
    ELSE LET mid == (lo + hi) \div 2
             l == MaxElement(data, lo, mid)
             r == MaxElement(data, mid + 1, hi)
         IN  IF FLess(data[l].magnitude, data[r].magnitude) THEN r ELSE l

\* std::min_element likewise: the first element that no other element is below.
RECURSIVE MinElement(_, _, _)
MinElement(data, lo, hi) ==
    IF lo = hi THEN lo
    ELSE LET mid == (lo + hi) \div 2
             l == MinElement(data, lo, mid)
             r == MinElement(data, mid + 1, hi)
         IN  IF FLess(data[r].magnitude, data[l].magnitude) THEN r ELSE l

\* computeMaxMagnitude with the comparator turned round (lhs.magnitude > rhs.magnitude).
computeMaxMagnitudeReversed(data) == data[MinElement(data, 1, Len(data))].magnitude

computeMaxMagnitude(data) == data[MaxElement(data, 1, Len(data))].magnitude

computeMinMagnitude(data) == data[MinElement(data, 1, Len(data))].magnitude

----------------------------------------------------------------------------
(* State *)

VARIABLES
    volume,             \* the Volume the field was constructed from
    m_dim,
    m_data,
    m_minMagnitude,
    m_maxMagnitude,
    interpolationMode,
    pc,                 \* "idle", or "done": an operation has ended and its caller holds the result
    call,               \* the operation and its arguments
    ret,                \* how it ended and what it returned
    fetched             \* the cells (x, y, z) it passed to getGradient, in order

vars == <<volume, m_dim, m_data, m_minMagnitude, m_maxMagnitude,
          interpolationMode, pc, call, ret, fetched>>

\* The enumerators of InterpolationMode.
Modes == {"NearestNeighbour", "Linear", "Cubic"}
\* The enumerators and a value that is none of them.
ModeValues == Modes \cup {"Unrecognized"}

----------------------------------------------------------------------------
(* Direct indexed access *)

\* VoxelIndex with the extents of x and y exchanged.
VoxelIndexSwapped(x, y, z) == x + m_dim[2] * (y + m_dim[1] * z)

\* x + m_dim.x * (y + m_dim.y * z), in int arithmetic
VoxelIndex(x, y, z) == x + m_dim[1] * (y + m_dim[2] * z)

\* static_cast<size_t>(i) addresses an element of m_data: a negative int becomes
\* a size_t beyond every array.
InArray(i) == 0 <= i /\ i < Len(m_data)

\* m_data[i] is unchecked: outside the array the read is undefined, and
\* `outside` is what the read finds there.
getGradient(x, y, z, outside) ==
    LET i == VoxelIndex(x, y, z)
    IN  IF InArray(i) THEN m_data[i + 1] ELSE outside

----------------------------------------------------------------------------
(* Nearest-neighbour sampling *)

AnyLessThan(a, b) == \E k \in 1..3 : FLess(a[k], b[k])
AnyGreaterThanEqual(a, b) == \E k \in 1..3 : FGreaterEq(a[k], b[k])

\* glm::vec3(m_dim)
DimVec == Vec3(IntToFloat(m_dim[1]), IntToFloat(m_dim[2]), IntToFloat(m_dim[3]))
ZeroVec == Vec3(Fin(0), Fin(0), Fin(0))

\* The bounds check of getGradientNearestNeighbor: TRUE when it returns early.
NearestNeighborOutside(coord) ==
    AnyLessThan(coord, ZeroVec) \/ AnyGreaterThanEqual(coord, DimVec)

roundToPositiveInt(f) == TruncInt(FAdd(f, Fin(Half)))

\* The cells getGradientNearestNeighbor passes to getGradient.
NearestNeighborFetches(coord) ==
    IF NearestNeighborOutside(coord) THEN <<>>
    ELSE << <<roundToPositiveInt(coord[1]), roundToPositiveInt(coord[2]),
              roundToPositiveInt(coord[3])>> >>

getGradientNearestNeighbor(coord, outside) ==
    IF NearestNeighborOutside(coord) THEN GradientVoxel(ZeroVec, Fin(0))
    ELSE getGradient(roundToPositiveInt(coord[1]), roundToPositiveInt(coord[2]),
                     roundToPositiveInt(coord[3]), outside)

----------------------------------------------------------------------------
(* "Linear" sampling *)

\* linearInterpolate with the factor clamped to [0, 1] first.
linearInterpolateClamped(g0, g1, factor) ==
    LET t == IF FLess(factor, Fin(0)) THEN Fin(0)
             ELSE IF FLess(Fin(One), factor) THEN Fin(One)
             ELSE factor
        magnitude == FAdd(g0.magnitude, FMul(t, FSub(g1.magnitude, g0.magnitude)))
        direction == VAdd(g0.dir, VScale(t, VSub(g1.dir, g0.dir)))
    IN  GradientVoxel(direction, magnitude)

linearInterpolate(g0, g1, factor) ==
    LET magnitude == FAdd(g0.magnitude, FMul(factor, FSub(g1.magnitude, g0.magnitude)))
        direction == VAdd(g0.dir, VScale(factor, VSub(g1.dir, g0.dir)))
    IN  GradientVoxel(direction, magnitude)

\* The cells getGradientLinearInterpolate passes to getGradient, in order:
\* g000, g001, g010, g011, g100, g101, g110, g111 (no check precedes them).
LinearFetches(coord) ==
    LET x0 == FloorInt(coord[1])
        x1 == CeilInt(coord[1])
        y0 == FloorInt(coord[2])
        y1 == CeilInt(coord[2])
        z0 == FloorInt(coord[3])
        z1 == CeilInt(coord[3])
    IN  << <<x0, y0, z0>>, <<x0, y0, z1>>, <<x0, y1, z0>>, <<x0, y1, z1>>,
           <<x1, y0, z0>>, <<x1, y0, z1>>, <<x1, y1, z0>>, <<x1, y1, z1>> >>

getGradientLinearInterpolate(coord, outside) ==
    LET x0 == FloorInt(coord[1])
        x1 == CeilInt(coord[1])
        y0 == FloorInt(coord[2])
        y1 == CeilInt(coord[2])
        z0 == FloorInt(coord[3])
        z1 == CeilInt(coord[3])
        g000 == getGradient(x0, y0, z0, outside)
        g001 == getGradient(x0, y0, z1, outside)
        g010 == getGradient(x0, y1, z0, outside)
        g011 == getGradient(x0, y1, z1, outside)
        g100 == getGradient(x1, y0, z0, outside)
        g101 == getGradient(x1, y0, z1, outside)
        g110 == getGradient(x1, y1, z0, outside)
        g111 == getGradient(x1, y1, z1, outside)
        p000 == Vec3(IntToFloat(x0), IntToFloat(y0), IntToFloat(z0))
        p001 == Vec3(IntToFloat(x0), IntToFloat(y0), IntToFloat(z1))
        p010 == Vec3(IntToFloat(x0), IntToFloat(y1), IntToFloat(z0))
        p011 == Vec3(IntToFloat(x0), IntToFloat(y1), IntToFloat(z1))
        \* the distances to p100 .. p111 and their factors are computed and never used
        f000 == FDiv(IntToFloat(1), Distance(coord, p000))
        f001 == FDiv(IntToFloat(1), Distance(coord, p001))
        f010 == FDiv(IntToFloat(1), Distance(coord, p010))
        f011 == FDiv(IntToFloat(1), Distance(coord, p011))
        g000_ == GradientVoxel(g000.dir, g000.magnitude)
        g001_ == GradientVoxel(g001.dir, g001.magnitude)
        g010_ == GradientVoxel(g010.dir, g010.magnitude)
        g011_ == GradientVoxel(g011.dir, g011.magnitude)
        g100_ == GradientVoxel(g100.dir, g100.magnitude)
        g101_ == GradientVoxel(g101.dir, g101.magnitude)
        g110_ == GradientVoxel(g110.dir, g110.magnitude)
        g111_ == GradientVoxel(g111.dir, g111.magnitude)
        g00 == linearInterpolate(g000_, g001_, f000)
        g01 == linearInterpolate(g010_, g011_, f001)
        g10 == linearInterpolate(g100_, g101_, f010)
        g11 == linearInterpolate(g110_, g111_, f011)
        g0  == linearInterpolate(g00, g01, f000)
        g1  == linearInterpolate(g10, g11, f001)
        g   == linearInterpolate(g0, g1, f000)
    IN  g

----------------------------------------------------------------------------
(* Mode dispatch *)

Returned(voxel) == [status |-> "returned", voxel |-> voxel]
\* throw std::exception(): no voxel is returned
Thrown == [status |-> "exception", voxel |-> ZeroVoxel]
\* the process was stopped by a read outside the array
Fault == [status |-> "fault", voxel |-> ZeroVoxel]

\* getGradientInterpolate with the Cubic case falling back to nearest neighbour.
getGradientInterpolateCubicNearest(coord, outside) ==
    CASE interpolationMode = "NearestNeighbour" ->
             Returned(getGradientNearestNeighbor(coord, outside))
      [] interpolationMode = "Linear" ->
             Returned(getGradientLinearInterpolate(coord, outside))
      [] interpolationMode = "Cubic" ->
             Returned(getGradientNearestNeighbor(coord, outside))
      [] OTHER -> Thrown

getGradientInterpolate(coord, outside) ==
    CASE interpolationMode = "NearestNeighbour" ->
             Returned(getGradientNearestNeighbor(coord, outside))
      [] interpolationMode = "Linear" ->
             Returned(getGradientLinearInterpolate(coord, outside))
      [] interpolationMode = "Cubic" ->
             Returned(getGradientLinearInterpolate(coord, outside))
      [] OTHER -> Thrown

\* The cells the call passes to getGradient.
InterpolateFetches(coord) ==
    CASE interpolationMode = "NearestNeighbour" -> NearestNeighborFetches(coord)
      [] interpolationMode = "Linear" -> LinearFetches(coord)
      [] interpolationMode = "Cubic" -> LinearFetches(coord)
      [] OTHER -> <<>>

----------------------------------------------------------------------------
(* Inputs of the operations *)

\* Sample positions on an axis of extent d, in grid units: below the volume,
\* lattice points, a position between two lattice points, the last lattice
\* point, one grid step below the upper end, the upper end.
SampleAxis(d) ==
    {-Half, 0, One, One + Half, (d - 1) * One, d * One - 1, d * One}

SampleCoords ==
    {Vec3(Fin(cx), Fin(cy), Fin(cz)) :
        cx \in SampleAxis(m_dim[1]), cy \in SampleAxis(m_dim[2]), cz \in SampleAxis(m_dim[3])}

\* What a read outside m_data can find there.
GarbageVoxel ==
    GradientVoxel(Vec3(IntToFloat(1), IntToFloat(-2), IntToFloat(3)), IntToFloat(7))
StrayVoxels == {ZeroVoxel, GarbageVoxel}

\* The outcomes of a read outside m_data: it faults, or it yields whatever is
\* stored there.
UndefinedReads ==
    {[fault |-> TRUE, outside |-> ZeroVoxel]}
        \cup {[fault |-> FALSE, outside |-> g] : g \in StrayVoxels}

\* Arguments of direct calls of linearInterpolate.
LerpVoxels ==
    {ZeroVoxel, GarbageVoxel,
     GradientVoxel(Vec3(IntToFloat(2), Fin(Half), IntToFloat(0)), IntToFloat(1))}
LerpFactors == {Fin(-One), Fin(0), Fin(Half \div 2), Fin(Half), Fin(One), Fin(2 * One)}

----------------------------------------------------------------------------
(* Operations *)

\* What the object keeps: everything but interpolationMode is const after
\* construction.
fields == <<volume, m_dim, m_data, m_minMagnitude, m_maxMagnitude>>

\* GradientVolume::GradientVolume(const Volume&).  interpolationMode starts at
\* an enumerator (its initialiser is in the header).
Init ==
    \E v \in Volumes :
        /\ volume = v
        /\ m_dim = v.dims
        /\ m_data = computeGradientVolume(v)
        /\ m_minMagnitude = computeMinMagnitude(m_data)
        /\ m_maxMagnitude = computeMaxMagnitude(m_data)
        /\ interpolationMode \in Modes
        /\ pc = "done"
        /\ call = [op |-> "GradientVolume"]
        /\ ret = [status |-> "returned"]
        /\ fetched = <<>>

\* The caller takes the result and goes on; a fault has stopped the process.
Return ==
    /\ pc = "done"
    /\ ret.status # "fault"
    /\ pc' = "idle"
    /\ call' = [op |-> "none"]
    /\ ret' = [status |-> "none"]
    /\ fetched' = <<>>
    /\ UNCHANGED <<fields, interpolationMode>>

maxMagnitude ==
    /\ pc = "idle"
    /\ pc' = "done"
    /\ call' = [op |-> "maxMagnitude"]
    /\ ret' = [status |-> "returned", value |-> m_maxMagnitude]
    /\ fetched' = <<>>
    /\ UNCHANGED <<fields, interpolationMode>>

minMagnitude ==
    /\ pc = "idle"
    /\ pc' = "done"
    /\ call' = [op |-> "minMagnitude"]
    /\ ret' = [status |-> "returned", value |-> m_minMagnitude]
    /\ fetched' = <<>>
    /\ UNCHANGED <<fields, interpolationMode>>

dims ==
    /\ pc = "idle"
    /\ pc' = "done"
    /\ call' = [op |-> "dims"]
    /\ ret' = [status |-> "returned", value |-> m_dim]
    /\ fetched' = <<>>
    /\ UNCHANGED <<fields, interpolationMode>>

\* An assignment to the public member interpolationMode.
SetInterpolationMode(mode) ==
    /\ pc = "idle"
    /\ pc' = "done"
    /\ interpolationMode' = mode
    /\ call' = [op |-> "interpolationMode", mode |-> mode]
    /\ ret' = [status |-> "returned"]
    /\ fetched' = <<>>
    /\ UNCHANGED fields

\* The reads of m_data a call of getGradientInterpolate(coord) can meet: inside
\* the array nothing is undefined.
SampleReads(coord) ==
    LET touched == InterpolateFetches(coord)
        stray == {k \in 1..Len(touched) :
                     ~InArray(VoxelIndex(touched[k][1], touched[k][2], touched[k][3]))}
    IN  IF stray = {} THEN {[fault |-> FALSE, outside |-> ZeroVoxel]} ELSE UndefinedReads

\* How the call ends under one of them.
SampleResult(coord, read) ==
    IF read.fault THEN Fault ELSE getGradientInterpolate(coord, read.outside)

\* A call of getGradientInterpolate(coord).
Sample(coord) ==
    /\ pc = "idle"
    /\ pc' = "done"
    /\ \E read \in SampleReads(coord) :
           /\ call' = [op |-> "getGradientInterpolate", mode |-> interpolationMode,
                       coord |-> coord, outside |-> read.outside]
           /\ ret' = SampleResult(coord, read)
    /\ fetched' = InterpolateFetches(coord)
    /\ UNCHANGED <<fields, interpolationMode>>

\* A call of the static linearInterpolate(g0, g1, factor).
LinearInterpolate(g0, g1, factor) ==
    /\ pc = "idle"
    /\ pc' = "done"
    /\ call' = [op |-> "linearInterpolate", g0 |-> g0, g1 |-> g1, factor |-> factor]
    /\ ret' = Returned(linearInterpolate(g0, g1, factor))
    /\ fetched' = <<>>
    /\ UNCHANGED <<fields, interpolationMode>>

\* An operation starts when its caller is idle (each action states it; it is
\* repeated before the quantifiers).
Next ==
    \/ Return
    \/ maxMagnitude
    \/ minMagnitude
    \/ dims
    \/ pc = "idle" /\ \E mode \in ModeValues : SetInterpolationMode(mode)
    \/ pc = "idle" /\ \E coord \in SampleCoords : Sample(coord)
    \/ pc = "idle" /\ \E g0 \in LerpVoxels, g1 \in LerpVoxels, factor \in LerpFactors :
                         LinearInterpolate(g0, g1, factor)

Spec == Init /\ [][Next]_vars

----------------------------------------------------------------------------
(* Vocabulary of the properties *)

\* The state in which a call of getGradientInterpolate made in the given mode
\* has ended (by a return, an exception or a fault).
Sampled(mode) ==
    pc = "done" /\ call.op = "getGradientInterpolate" /\ call.mode = mode

CellInRange(c) ==
    /\ 0 <= c[1] /\ c[1] < m_dim[1]
    /\ 0 <= c[2] /\ c[2] < m_dim[2]
    /\ 0 <= c[3] /\ c[3] < m_dim[3]

\* The voxel stored for cell (x, y, z), by the layout index = x + dim.x * (y + dim.y * z).
Stored(x, y, z) == m_data[x + m_dim[1] * (y + m_dim[2] * z) + 1]

\* coord is an exact integer lattice point.
IsLattice(coord) == \A k \in 1..3 : coord[k].v % One = 0

\* Each axis of coord is >= 0 and < dim: the check of nearest-neighbour sampling.
InsideVolume(coord) == \A k \in 1..3 : 0 <= coord[k].v /\ coord[k].v < m_dim[k] * One

\* Each axis of coord is >= 0 and coord + 1 < dim: the guard of trilinear sampling.
InsideTrilinearGuard(coord) ==
    \A k \in 1..3 : 0 <= coord[k].v /\ coord[k].v + One < m_dim[k] * One

----------------------------------------------------------------------------
(* C1 *)

\* C1 (as claimed): in nearest-neighbour sampling every coordinate that passes
\* the bounds check is rounded to a cell with 0 <= cell < dim on every axis, so
\* the linear index of the fetch is inside the array.
C1_NearestCellInRange ==
    Sampled("NearestNeighbour") /\ InsideVolume(call.coord) =>
        \A k \in 1..Len(fetched) :
            /\ CellInRange(fetched[k])
            /\ InArray(VoxelIndex(fetched[k][1], fetched[k][2], fetched[k][3]))

----------------------------------------------------------------------------
(* C2, C3, C4 *)

\* C2 (as claimed): in Linear mode a coordinate with an axis < 0 or an axis
\* with coord + 1 >= dim is answered with the zero voxel.
C2_LinearGuardReturnsZero ==
    Sampled("Linear") /\ ~InsideTrilinearGuard(call.coord) => ret = Returned(ZeroVoxel)

\* C3 (as claimed): in Linear mode, whatever the coordinate, each of the eight
\* fetches uses a cell with 0 <= x < dim.x, 0 <= y < dim.y, 0 <= z < dim.z and
\* reads inside the array.
C3_LinearFetchesInRange ==
    Sampled("Linear") =>
        \A k \in 1..Len(fetched) :
            /\ CellInRange(fetched[k])
            /\ InArray(VoxelIndex(fetched[k][1], fetched[k][2], fetched[k][3]))

\* g0 + t * (g1 - g0) on the direction and the magnitude.
Blend(g0, g1, t) ==
    GradientVoxel(
        <<FAdd(g0.dir[1], FMul(t, FSub(g1.dir[1], g0.dir[1]))),
          FAdd(g0.dir[2], FMul(t, FSub(g1.dir[2], g0.dir[2]))),
          FAdd(g0.dir[3], FMul(t, FSub(g1.dir[3], g0.dir[3])))>>,
        FAdd(g0.magnitude, FMul(t, FSub(g1.magnitude, g0.magnitude))))

\* The trilinear blend of the eight corners of the cell around coord (a
\* coordinate inside the guard): along x, then along y, then along z, with the
\* fractional offsets as weights.
Trilinear(coord) ==
    LET x0 == FloorInt(coord[1])
        x1 == CeilInt(coord[1])
        y0 == FloorInt(coord[2])
        y1 == CeilInt(coord[2])
        z0 == FloorInt(coord[3])
        z1 == CeilInt(coord[3])
        fx == FSub(coord[1], IntToFloat(x0))
        fy == FSub(coord[2], IntToFloat(y0))
        fz == FSub(coord[3], IntToFloat(z0))
        c00 == Blend(Stored(x0, y0, z0), Stored(x1, y0, z0), fx)
        c10 == Blend(Stored(x0, y1, z0), Stored(x1, y1, z0), fx)
        c01 == Blend(Stored(x0, y0, z1), Stored(x1, y0, z1), fx)
        c11 == Blend(Stored(x0, y1, z1), Stored(x1, y1, z1), fx)
        c0  == Blend(c00, c10, fy)
        c1  == Blend(c01, c11, fy)
    IN  Blend(c0, c1, fz)

\* C4 (as claimed): for a coordinate inside the trilinear guard, lattice points
\* included, Linear sampling returns the trilinear blend of the eight corner
\* voxels, which at a lattice point is the stored voxel of that cell.
C4_LinearIsTrilinear ==
    Sampled("Linear") /\ InsideTrilinearGuard(call.coord) =>
        /\ ret = Returned(Trilinear(call.coord))
        /\ IsLattice(call.coord) =>
               ret = Returned(Stored(FloorInt(call.coord[1]), FloorInt(call.coord[2]),
                                     FloorInt(call.coord[3])))

----------------------------------------------------------------------------
(* C5 *)

\* A direct call of linearInterpolate has returned.
Lerped == pc = "done" /\ call.op = "linearInterpolate"

\* a + t * (b - a) on one channel, for finite a, b and t: the product is rounded
\* to the grid, the sum and the difference are exact.
Channel(a, b, t) == Fin(a.v + RoundDiv(t.v * (b.v - a.v), One))

----------------------------------------------------------------------------
(* C6 *)

\* The scalar of the source volume at a cell.
V(x, y, z) == FieldValue(volume.field, x, y, z)

\* A cell on the outermost shell of the grid.
IsBoundary(x, y, z) ==
    \/ x = 0 \/ x = m_dim[1] - 1
    \/ y = 0 \/ y = m_dim[2] - 1
    \/ z = 0 \/ z = m_dim[3] - 1

\* m is the Euclidean norm of (a, b, c), all in grid units: the grid value
\* nearest to sqrt(a^2 + b^2 + c^2).
IsNorm(m, a, b, c) ==
    LET e == a * a + b * b + c * c
    IN  /\ m >= 0
        /\ 4 * e < (2 * m + 1) * (2 * m + 1)
        /\ m = 0 \/ (2 * m - 1) * (2 * m - 1) <= 4 * e

\* The voxel g is the central-difference gradient of V at the interior cell (x, y, z).
IsCentralDifference(g, x, y, z) ==
    /\ g.dir = <<Fin((V(x + 1, y, z) - V(x - 1, y, z)) * Half),
                 Fin((V(x, y + 1, z) - V(x, y - 1, z)) * Half),
                 Fin((V(x, y, z + 1) - V(x, y, z - 1)) * Half)>>
    /\ g.magnitude.cls = "fin"
    /\ IsNorm(g.magnitude.v, g.dir[1].v, g.dir[2].v, g.dir[3].v)

\* The constructor has returned, or its object is at rest between two calls.
Constructed == call.op = "GradientVolume" \/ pc = "idle"

\* C6: after construction the stored field is the reference field: one voxel per
\* cell, the zero voxel at every boundary cell, and at every interior cell, at
\* index x + dim.x*(y + dim.y*z), the central differences of V with their
\* Euclidean norm as magnitude.  So the field is all zero when an axis is <= 2
\* or V is constant, and V(x,y,z) = x gives direction (1,0,0), magnitude 1 at
\* every interior cell.
C6_FieldIsCentralDifferences ==
    Constructed =>
        /\ m_dim = volume.dims
        /\ Len(m_data) = m_dim[1] * m_dim[2] * m_dim[3]
        /\ \A x \in 0..(m_dim[1] - 1), y \in 0..(m_dim[2] - 1), z \in 0..(m_dim[3] - 1) :
               IF IsBoundary(x, y, z)
               THEN Stored(x, y, z) = ZeroVoxel
               ELSE /\ IsCentralDifference(Stored(x, y, z), x, y, z)
                    /\ volume.field = "rampX" =>
                           Stored(x, y, z) =
                               GradientVoxel(Vec3(IntToFloat(1), IntToFloat(0), IntToFloat(0)),
                                             IntToFloat(1))
        /\ (\E k \in 1..3 : m_dim[k] <= 2) \/ volume.field = "constant" =>
               \A i \in 1..Len(m_data) : m_data[i] = ZeroVoxel

\* A field with interior cells holding different gradients, among them a
\* gradient with a half (an odd difference of V) and a magnitude that is not a
\* grid value's exact norm, has been constructed.
C6_ScatteredFieldBuilt ==
    /\ call.op = "GradientVolume"
    /\ volume.field = "scattered"
    /\ m_dim = <<MaxDim, 3, 3>>
    /\ \E x \in 1..(MaxDim - 2) :
           /\ Stored(x, 1, 1).dir[1].v % One = Half
           /\ Stored(x, 1, 1) # Stored(1 + (x % (MaxDim - 2)), 1, 1)

----------------------------------------------------------------------------
(* C7 *)

\* C7: minMagnitude() <= maxMagnitude(); minMagnitude() returns the smallest
\* and maxMagnitude() the largest magnitude of the dim.x*dim.y*dim.z stored
\* voxels, boundary zeros included.
C7_MinMaxOverAllVoxels ==
    /\ m_minMagnitude.cls = "fin" /\ m_maxMagnitude.cls = "fin"
    /\ m_minMagnitude.v <= m_maxMagnitude.v
    /\ pc = "done" /\ call.op = "minMagnitude" =>
           /\ ret.value = m_minMagnitude
           /\ Len(m_data) = m_dim[1] * m_dim[2] * m_dim[3]
           /\ \E i \in 1..Len(m_data) : m_data[i].magnitude = ret.value
           /\ \A i \in 1..Len(m_data) : ret.value.v <= m_data[i].magnitude.v
    /\ pc = "done" /\ call.op = "maxMagnitude" =>
           /\ ret.value = m_maxMagnitude
           /\ Len(m_data) = m_dim[1] * m_dim[2] * m_dim[3]
           /\ \E i \in 1..Len(m_data) : m_data[i].magnitude = ret.value
           /\ \A i \in 1..Len(m_data) : m_data[i].magnitude.v <= ret.value.v

\* maxMagnitude() has returned the magnitude of an interior voxel that is
\* neither the first nor the only non-zero one, above the minimum of 0.
C7_MaxAboveMin ==
    /\ pc = "done" /\ call.op = "maxMagnitude"
    /\ ret.value.v > m_minMagnitude.v
    /\ \E i \in 1..Len(m_data), j \in 1..Len(m_data) :
           /\ i < j
           /\ 0 < m_data[i].magnitude.v
           /\ m_data[i].magnitude.v < m_data[j].magnitude.v
           /\ m_data[j].magnitude = ret.value

----------------------------------------------------------------------------
(* C8 *)

\* C8: in NearestNeighbour mode a sample at an exact integer lattice coordinate
\* (x, y, z) inside the volume returns exactly the voxel stored at index
\* x + dim.x*(y + dim.y*z).
C8_NearestAtLatticeIsStored ==
    Sampled("NearestNeighbour") /\ IsLattice(call.coord) /\ InsideVolume(call.coord) =>
        ret = Returned(Stored(call.coord[1].v \div One, call.coord[2].v \div One,
                              call.coord[3].v \div One))

\* A lattice point of a volume with unequal extents has been sampled, and the
\* voxel returned is an interior cell's non-zero gradient.
C8_InteriorLatticeSampled ==
    /\ Sampled("NearestNeighbour")
    /\ IsLattice(call.coord) /\ InsideVolume(call.coord)
    /\ m_dim = <<MaxDim, 3, 3>>
    /\ ret.status = "returned"
    /\ ret.voxel # ZeroVoxel

----------------------------------------------------------------------------
(* C9 *)

\* C9: getGradientInterpolate dispatches on interpolationMode: a Cubic sample
\* is the Linear sample of the same coordinate (the same fetches, the same
\* voxel), a NearestNeighbour sample is the nearest-neighbour result, and a
\* mode value that is none of the three ends the call in an exception, with no
\* voxel fetched or returned.
C9_ModeDispatch ==
    pc = "done" /\ call.op = "getGradientInterpolate" =>
        /\ call.mode \in {"Linear", "Cubic"} =>
               /\ fetched = LinearFetches(call.coord)
               /\ \/ ret = Fault
                  \/ ret = Returned(getGradientLinearInterpolate(call.coord, call.outside))
        /\ call.mode = "NearestNeighbour" =>
               /\ fetched = NearestNeighborFetches(call.coord)
               /\ \/ ret = Fault
                  \/ ret = Returned(getGradientNearestNeighbor(call.coord, call.outside))
        /\ call.mode \in Modes => ret.status # "exception"
        /\ call.mode \notin Modes => ret = Thrown /\ fetched = <<>>
        /\ ret = Fault =>
               \E k \in 1..Len(fetched) :
                   ~InArray(VoxelIndex(fetched[k][1], fetched[k][2], fetched[k][3]))

\* A Cubic sample has returned a voxel blended from cells inside the array
\* that is not the nearest-neighbour voxel of its coordinate.
C9_CubicSampled ==
    /\ Sampled("Cubic")
    /\ ret.status = "returned"
    /\ \A k \in 1..Len(fetched) : CellInRange(fetched[k])
    /\ ret.voxel # getGradientNearestNeighbor(call.coord, call.outside)
    /\ ret.voxel.magnitude.cls = "fin"

----------------------------------------------------------------------------
(* C10 *)

\* The first half of C10 on its own: no step changes dim, a stored voxel,
\* minMagnitude or maxMagnitude, and a sample leaves interpolationMode as it is.
SamplingFrame ==
    [][/\ m_dim' = m_dim
       /\ m_data' = m_data
       /\ m_minMagnitude' = m_minMagnitude
       /\ m_maxMagnitude' = m_maxMagnitude
       /\ call'.op = "getGradientInterpolate" => interpolationMode' = interpolationMode]_vars

\* C10 (as claimed): mode changes and samples, at any coordinate, leave dim,
\* the stored voxels, minMagnitude and maxMagnitude unchanged, and a sample
\* leaves interpolationMode unchanged, so that two samples of the same
\* coordinate under the same mode return the same voxel: the object a sample
\* leaves is the object it found, and of that object every sample of the
\* coordinate ends the way this one has ended.
C10_SamplingIsRepeatable ==
    [][/\ m_dim' = m_dim
       /\ m_data' = m_data
       /\ m_minMagnitude' = m_minMagnitude
       /\ m_maxMagnitude' = m_maxMagnitude
       /\ call'.op = "getGradientInterpolate" =>
              /\ interpolationMode' = interpolationMode
              /\ \A read \in SampleReads(call'.coord) :
                     SampleResult(call'.coord, read) = ret']_vars

=============================================================================
